---- MODULE Spec2Model ----
(***************************************************************************)
(* A model of PDF-Split/pdf_split.py: the bookmark title classifier        *)
(* (extract_section_info), the file-name sanitizer (create_clean_filename) *)
(* and the splitter (hierarchy_split_pdf: first pass over the bookmarks,   *)
(* chapters-as-sections fallback, page-range builder, file emitter).       *)
(*                                                                         *)
(* Text is a sequence of one-character strings, so that the regular        *)
(* expressions and the string operations of the source are computed and    *)
(* not assumed.  Python's None is the value None below.                    *)
(***************************************************************************)
EXTENDS Integers, Sequences, FiniteSets, TLC

VARIABLES
    pc,              \* position of the run
    bookmarks,       \* extract_bookmarks_from_pdf's result: [title, page], sorted by page
    total_pages,     \* len(reader.pages)
    min_level,       \* argument
    max_level,       \* argument
    min_pages,       \* argument
    chapters,        \* dict chapter_num -> {title, page}, in insertion order
    chapter_titles,  \* dict chapter_num -> section_title
    sections,        \* list of section dicts
    section_ranges,  \* list of range dicts
    idx,             \* the emitter loop's position in section_ranges (1-based)
    dirs,            \* directories that exist under root_dir
    files,           \* output_path -> the pages the file holds
    out,             \* what the emitter printed, one record per message
    faults,          \* failures the environment has injected so far
    arg,             \* the argument of a pure function under check
    ret              \* its result

vars == <<pc, bookmarks, total_pages, min_level, max_level, min_pages, chapters,
          chapter_titles, sections, section_ranges, idx, dirs, files, out, faults,
          arg, ret>>

splitVars == <<bookmarks, total_pages, min_level, max_level, min_pages, chapters,
               chapter_titles, sections, section_ranges, idx, dirs, files, out, faults>>

(***************************************************************************)
(* Bounds of the model.                                                    *)
(***************************************************************************)
\* longest bookmark title given to extract_section_info on its own
MaxTitleLen == 6
\* most integers of a dotted number given to extract_section_info on its own
MaxComponents == 5
\* longest text after such a dotted number
MaxTextLen == 2
\* longest free tail of a text given to create_clean_filename on its own
MaxTailLen == 3
\* most bookmarks of a document, runs without failures
MaxBookmarks == 3
\* most pages of a document, runs without failures
MaxPages == 3
\* largest min_pages argument
MaxMinPages == 2
\* most bookmarks of a document, runs with failures
MaxFaultBookmarks == 2
\* most pages of a document, runs with failures
MaxFaultPages == 3
\* most failures (page copy, open, write) the environment injects in one run
MaxFaults == 1

(***************************************************************************)
(* Text helpers.                                                           *)
(***************************************************************************)
None == <<"<None>">>

Min(a, b) == IF a < b THEN a ELSE b

\* str truthiness: `not text` is true of None and of ''
Falsy(text) == text = None \/ text = <<>>

\* re's \d (ASCII digits of the inputs)
IsDigit(c) == c \in {"0", "1", "2", "3", "4", "5", "6", "7", "8", "9"}

\* re's \s
IsSpace(c) == c \in {" ", "\t", "\n", "\r", "\f"}

\* the ends j of the matches s[i..j] of \d+ at position i (all of them: the
\* matcher may give digits back when what follows fails)
DigitEnds(s, i) == { j \in i..Len(s) : \A k \in i..j : IsDigit(s[k]) }

\* the ends of the matches of \s+ at position i
SpaceEnds(s, i) == { j \in i..Len(s) : \A k \in i..j : IsSpace(s[k]) }

\* the end of the greedy match of .* at position i ('.' matches no newline);
\* i-1 when it matches the empty text
DotStarEnd(s, i) ==
    LET stops == { j \in i..Len(s) : s[j] = "\n" }
    IN IF stops = {} THEN Len(s)
       ELSE (CHOOSE j \in stops : \A k \in stops : j <= k) - 1

\* whether the literal lit occurs in s at position i
LitAt(s, i, lit) ==
    /\ i + Len(lit) - 1 <= Len(s)
    /\ \A k \in 1..Len(lit) : s[i + k - 1] = lit[k]

\* a >= b in the lexicographic order of two tuples of one length: the order
\* in which re's backtracking tries the alternatives (greedy: longest first,
\* an optional group taken before it is left out)
LexGE(a, b) ==
    \/ a = b
    \/ \E i \in 1..Len(a) : a[i] > b[i] /\ \A k \in 1..(i - 1) : a[k] = b[k]

\* the alternative re.match finds first among the ways S a pattern matches
Best(S) == CHOOSE c \in S : \A d \in S : LexGE(c, d)

\* str(x) inside an f-string
Fmt(x) == IF x = None THEN <<"N", "o", "n", "e">> ELSE x

(***************************************************************************)
(* extract_section_info                                                    *)
(***************************************************************************)
Result(chapter_num, section_id, section_title, level) ==
    [chapter_num |-> chapter_num, section_id |-> section_id,
     section_title |-> section_title, level |-> level]

\* r'Chapter\s+(\d+)[:\.]?\s+(.*)': the ways <<end of \s+, end of \d+,
\* [:.] taken, end of the second \s+>> it matches at the start of title
ChapterMatches(title) ==
    IF ~LitAt(title, 1, <<"C", "h", "a", "p", "t", "e", "r">>) THEN {}
    ELSE UNION { UNION { UNION { { <<s1, d, o, s2>> : s2 \in SpaceEnds(title, d + o + 1) }
                   : o \in {0} \cup (IF d + 1 <= Len(title) /\ title[d + 1] \in {":", "."}
                                     THEN {1} ELSE {}) }
                   : d \in DigitEnds(title, s1 + 1) }
                   : s1 \in SpaceEnds(title, 8) }

\* (?:\.(\d+))? after position e: <<0, e>> when left out, <<1, end>> when taken
OptComponent(title, e) ==
    {<<0, e>>} \cup
    { <<1, j>> : j \in (IF e + 1 <= Len(title) /\ title[e + 1] = "."
                        THEN DigitEnds(title, e + 2) ELSE {}) }

\* r'(\d+)\.(\d+)(?:\.(\d+))?(?:\.(\d+))?': the ways <<end of group 1, end of
\* group 2, group 3 taken, its end, group 4 taken, its end>> it matches
NumberMatches(title) ==
    UNION { UNION { UNION { { <<e1, e2, g3[1], g3[2], g4[1], g4[2]>>
                              : g4 \in OptComponent(title, g3[2]) }
                   : g3 \in OptComponent(title, e2) }
                   : e2 \in (IF e1 + 1 <= Len(title) /\ title[e1 + 1] = "."
                             THEN DigitEnds(title, e1 + 2) ELSE {}) }
                   : e1 \in DigitEnds(title, 1) }

\* pattern 2, r'(\d+)\.(\d+)(?:\.(\d+))?(?:\.(\d+))?\s+(.*)': NumberMatches
\* followed by \s+, whose end is the seventh component
SectionMatches(title) ==
    UNION { { c \o <<s>> : s \in SpaceEnds(title, c[6] + 1) } : c \in NumberMatches(title) }

\* r'(\d+)\s+(.*)': <<end of \d+, end of \s+>>
SimpleMatches(title) ==
    UNION { { <<e1, s>> : s \in SpaceEnds(title, e1 + 1) } : e1 \in DigitEnds(title, 1) }

\* r'Appendix\s+([A-Z])[:\.]?\s+(.*)': <<end of \s+, [:.] taken, end of the
\* second \s+>>; the letter is at the first end + 1
UpperCase == {"A", "B", "C", "D", "E", "F", "G", "H", "I", "J", "K", "L", "M",
              "N", "O", "P", "Q", "R", "S", "T", "U", "V", "W", "X", "Y", "Z"}

AppendixMatches(title) ==
    IF ~LitAt(title, 1, <<"A", "p", "p", "e", "n", "d", "i", "x">>) THEN {}
    ELSE UNION { UNION { { <<s1, o, s2>> : s2 \in SpaceEnds(title, s1 + 1 + o + 1) }
                   : o \in {0} \cup (IF s1 + 2 <= Len(title) /\ title[s1 + 2] \in {":", "."}
                                     THEN {1} ELSE {}) }
                   : s1 \in { s \in SpaceEnds(title, 9) :
                                s + 1 <= Len(title) /\ title[s + 1] \in UpperCase } }

\* group(5), or group(2), of a match: what .* takes from position i
Rest(title, i) == SubSeq(title, i, DotStarEnd(title, i))

\* lines 63-81 and 91-109 with the level of the X.Y branch in the X.Y.Z branch
NumberedResultLevelSlip(title, c, i) ==
    LET chapter_num       == SubSeq(title, 1, c[1])
        section_num       == SubSeq(title, c[1] + 2, c[2])
        subsection_num    == IF c[3] = 1 THEN SubSeq(title, c[2] + 2, c[4]) ELSE None
        subsubsection_num == IF c[5] = 1 THEN SubSeq(title, c[4] + 2, c[6]) ELSE None
        section_title     == Rest(title, i)
    IN IF ~Falsy(subsubsection_num)
       THEN Result(chapter_num,
                   chapter_num \o <<".">> \o section_num \o <<".">> \o
                   Fmt(subsection_num) \o <<".">> \o subsubsection_num,
                   section_title, 3)
       ELSE IF ~Falsy(subsection_num)
       THEN Result(chapter_num,
                   chapter_num \o <<".">> \o section_num \o <<".">> \o subsection_num,
                   section_title, 1)
       ELSE Result(chapter_num, chapter_num \o <<".">> \o section_num, section_title, 1)

\* lines 63-81 and 91-109: the result built from the groups of match c whose
\* trailing text starts at position i
NumberedResult(title, c, i) ==
    LET chapter_num       == SubSeq(title, 1, c[1])
        section_num       == SubSeq(title, c[1] + 2, c[2])
        subsection_num    == IF c[3] = 1 THEN SubSeq(title, c[2] + 2, c[4]) ELSE None
        subsubsection_num == IF c[5] = 1 THEN SubSeq(title, c[4] + 2, c[6]) ELSE None
        section_title     == Rest(title, i)
    IN IF ~Falsy(subsubsection_num)
       THEN Result(chapter_num,
                   chapter_num \o <<".">> \o section_num \o <<".">> \o
                   Fmt(subsection_num) \o <<".">> \o subsubsection_num,
                   section_title, 3)
       ELSE IF ~Falsy(subsection_num)
       THEN Result(chapter_num,
                   chapter_num \o <<".">> \o section_num \o <<".">> \o subsection_num,
                   section_title, 2)
       ELSE Result(chapter_num, chapter_num \o <<".">> \o section_num, section_title, 1)

extract_section_info(title) ==
    IF ChapterMatches(title) # {}
    THEN LET c == Best(ChapterMatches(title))
         IN Result(SubSeq(title, c[1] + 1, c[2]), None, Rest(title, c[4] + 1), 0)
    ELSE IF SectionMatches(title) # {}
    THEN LET c == Best(SectionMatches(title))
         IN NumberedResult(title, c, c[7] + 1)
    ELSE IF SimpleMatches(title) # {}
    THEN LET c == Best(SimpleMatches(title))
         IN Result(SubSeq(title, 1, c[1]), SubSeq(title, 1, c[1]), Rest(title, c[2] + 1), 0)
    ELSE IF NumberMatches(title) # {}
    THEN LET c == Best(NumberMatches(title))
         IN NumberedResult(title, c, c[6] + 1)
    ELSE IF AppendixMatches(title) # {}
    THEN LET c == Best(AppendixMatches(title))
         IN Result(<<"A", "p", "p", title[c[1] + 1]>>, None, Rest(title, c[3] + 1), 0)
    ELSE Result(None, None, None, -1)

(***************************************************************************)
(* create_clean_filename                                                   *)
(***************************************************************************)
\* the truncation length of line 130
TruncLen == 80

\* the character class of line 126
InvalidChars == {"\\", "/", "*", "?", ":", "\"", "<", ">", "|"}

\* re.sub(r'[\\/*?:"<>|]', '_', text)
ReplaceInvalid(text) ==
    [i \in 1..Len(text) |-> IF text[i] \in InvalidChars THEN "_" ELSE text[i]]

\* re.sub(r'\s+', '_', clean): each maximal run of whitespace becomes one '_'
\* (s[lo..hi] by halves: a character that is no whitespace stays, the first
\* whitespace of a run becomes '_', the others go)
RECURSIVE CollapseBetween(_, _, _)
CollapseBetween(s, lo, hi) ==
    IF lo > hi THEN <<>>
    ELSE IF lo = hi
    THEN IF ~IsSpace(s[lo]) THEN <<s[lo]>>
         ELSE IF lo > 1 /\ IsSpace(s[lo - 1]) THEN <<>>
         ELSE <<"_">>
    ELSE CollapseBetween(s, lo, (lo + hi) \div 2) \o
         CollapseBetween(s, (lo + hi) \div 2 + 1, hi)

CollapseSpaces(s) == CollapseBetween(s, 1, Len(s))

\* clean.strip('_')
StripUnderscores(s) ==
    LET keep == { i \in 1..Len(s) : s[i] # "_" }
    IN IF keep = {} THEN <<>>
       ELSE SubSeq(s, CHOOSE i \in keep : \A k \in 1..(i - 1) : s[k] = "_",
                      CHOOSE i \in keep : \A k \in (i + 1)..Len(s) : s[k] = "_")

\* [:80]
Truncate(s) == SubSeq(s, 1, Min(Len(s), TruncLen))

Unnamed == <<"U", "n", "n", "a", "m", "e", "d">>

create_clean_filename(text) ==
    IF Falsy(text) THEN Unnamed
    ELSE Truncate(StripUnderscores(CollapseSpaces(ReplaceInvalid(text))))

(***************************************************************************)
(* The pure functions on their own: an input is drawn, the function is     *)
(* applied (and, for the sanitizer, applied again to its own result).      *)
(***************************************************************************)
TitleAlphabet == {"1", "2", ".", " ", "a"}

RECURSIVE TextsUpTo(_, _)
TextsUpTo(alphabet, n) ==
    IF n = 0 THEN {<<>>}
    ELSE LET shorter == TextsUpTo(alphabet, n - 1)
         IN shorter \cup { Append(t, c) : t \in { u \in shorter : Len(u) = n - 1 },
                                           c \in alphabet }

Idle ==
    /\ bookmarks = <<>> /\ total_pages = 0 /\ min_level = 1 /\ max_level = 1
    /\ min_pages = 1 /\ chapters = <<>> /\ chapter_titles = <<>> /\ sections = <<>>
    /\ section_ranges = <<>> /\ idx = 0 /\ dirs = {} /\ files = <<>> /\ out = <<>>
    /\ faults = 0

\* n integers joined by dots, each "1" or "2"
RECURSIVE DottedNumbers(_)
DottedNumbers(n) ==
    IF n = 1 THEN {<<"1">>, <<"2">>}
    ELSE { p \o <<".", d>> : p \in DottedNumbers(n - 1), d \in {"1", "2"} }

\* every text over the alphabet up to MaxTitleLen, and every dotted number of
\* up to MaxComponents integers followed by every text up to MaxTextLen
ClassifyInputs ==
    TextsUpTo(TitleAlphabet, MaxTitleLen) \cup
    { p \o t : p \in UNION { DottedNumbers(n) : n \in 1..MaxComponents },
               t \in TextsUpTo(TitleAlphabet, MaxTextLen) }

InitClassify ==
    /\ pc = "call"
    /\ arg \in ClassifyInputs
    /\ ret = None
    /\ Idle

Classify ==
    /\ pc = "call"
    /\ ret' = extract_section_info(arg)
    /\ pc' = "returned"
    /\ UNCHANGED <<arg, splitVars>>

SpecClassify == InitClassify /\ [][Classify]_vars

CleanAlphabet == {"a", " ", "?", "_"}

\* a long head, so that the truncation of line 130 cuts inside the free tail
LongHead == [i \in 1..(TruncLen - 2) |-> "a"]

InitClean ==
    /\ pc = "call"
    /\ \E head \in {<<>>, LongHead}, tail \in TextsUpTo(CleanAlphabet, MaxTailLen) :
          arg = head \o tail
    /\ ret = <<>>
    /\ Idle

\* sanitize, then sanitize the result: ret is <<first, second>>
Clean ==
    /\ pc = "call"
    /\ ret' = <<create_clean_filename(arg)>>
    /\ pc' = "cleaned"
    /\ UNCHANGED <<arg, splitVars>>

CleanAgain ==
    /\ pc = "cleaned"
    /\ ret' = Append(ret, create_clean_filename(ret[1]))
    /\ pc' = "returned"
    /\ UNCHANGED <<arg, splitVars>>

SpecClean == InitClean /\ [][Clean \/ CleanAgain]_vars

(***************************************************************************)
(* hierarchy_split_pdf                                                     *)
(***************************************************************************)
\* the bookmark titles a document is built from
TitlePool ==
    { <<"1", " ", "A">>,                      \* chapter 1
      <<"2", " ", "A">>,                      \* chapter 2
      <<"1", ".", "1", " ", "A">>,            \* section 1.1, level 1
      <<"1", ".", "1", ".", "1", " ", "A">>,  \* section 1.1.1, level 2
      <<"x">> }                               \* no pattern

\* the (min_level, max_level) arguments, min_level <= max_level
LevelWindows == { <<1, 1>>, <<2, 3>>, <<0, 2>> }

\* lists of at most n bookmarks on pages 0..pages-1, sorted by page as line 36
\* leaves them: a bookmark is appended on the last one's page or a later one
RECURSIVE BookmarkLists(_, _)
BookmarkLists(n, pages) ==
    IF n = 0 THEN {<<>>}
    ELSE LET shorter == BookmarkLists(n - 1, pages)
         IN shorter \cup
            UNION { { Append(l, [title |-> t, page |-> p]) :
                        t \in TitlePool,
                        p \in (IF l = <<>> THEN 0 ELSE l[Len(l)].page)..(pages - 1) }
                    : l \in { k \in shorter : Len(k) = n - 1 } }

Sorted(l) == \A i \in 1..(Len(l) - 1) : l[i].page <= l[i + 1].page

\* the state after lines 145-165: the document is read, nothing is classified
Start(maxBookmarks, maxPages, windows) ==
    /\ pc = "first_pass"
    /\ total_pages \in 1..maxPages
    /\ bookmarks \in { l \in BookmarkLists(maxBookmarks, total_pages) : Sorted(l) }
    /\ \E w \in windows : min_level = w[1] /\ max_level = w[2]
    /\ min_pages \in 1..MaxMinPages
    /\ chapters = <<>>
    /\ chapter_titles = <<>>
    /\ sections = <<>>
    /\ section_ranges = <<>>
    /\ idx = 0
    /\ dirs = {}
    /\ files = <<>>
    /\ out = <<>>
    /\ faults = 0
    /\ arg = None
    /\ ret = None

Init == Start(MaxBookmarks, MaxPages, LevelWindows)

\* a dict whose first value for a key wins (setdefault in place of assignment)
DictSetFirstWins(d, key, value) ==
    IF \E i \in 1..Len(d) : d[i][1] = key THEN d ELSE Append(d, <<key, value>>)

\* d[key] = value on a dict kept as a list of <<key, value>> in insertion
\* order: a key already present keeps its place
DictSet(d, key, value) ==
    IF \E i \in 1..Len(d) : d[i][1] = key
    THEN [i \in 1..Len(d) |-> IF d[i][1] = key THEN <<key, value>> ELSE d[i]]
    ELSE Append(d, <<key, value>>)

\* d.get(key, default)
DictGet(d, key, default) ==
    IF \E i \in 1..Len(d) : d[i][1] = key
    THEN (CHOOSE e \in { d[i] : i \in 1..Len(d) } : e[1] = key)[2]
    ELSE default

\* extract_section_info on the titles of the pool, computed once
PoolInfo == [t \in TitlePool |-> extract_section_info(t)]

\* line 169: extract_section_info(bm['title'])
TitleInfo(title) ==
    IF title \in TitlePool THEN PoolInfo[title] ELSE extract_section_info(title)

\* line 183 without its lower bound
InWindowNoMin(level) == level <= max_level

\* line 183
InWindow(level) == min_level <= level /\ level <= max_level

\* lines 168-192, the loop body, on the state st = [chapters, chapter_titles,
\* sections]
FirstPassStep(st, bm) ==
    LET r == TitleInfo(bm.title)
    IN IF Falsy(r.chapter_num) THEN st
       ELSE IF r.level = 0
       THEN [st EXCEPT !.chapters = DictSet(@, r.chapter_num,
                                            [title |-> bm.title, page |-> bm.page]),
                       !.chapter_titles = DictSet(@, r.chapter_num, r.section_title)]
       ELSE IF InWindow(r.level)
       THEN [st EXCEPT !.sections = Append(@, [title |-> bm.title,
                                               chapter |-> r.chapter_num,
                                               section |-> r.section_id,
                                               section_title |-> r.section_title,
                                               page |-> bm.page,
                                               level |-> r.level])]
       ELSE st

RECURSIVE FirstPassLoop(_, _, _)
FirstPassLoop(st, bms, i) ==
    IF i > Len(bms) THEN st
    ELSE FirstPassLoop(FirstPassStep(st, bms[i]), bms, i + 1)

\* lines 167-192
FirstPass ==
    /\ pc = "first_pass"
    /\ LET st == FirstPassLoop([chapters |-> <<>>, chapter_titles |-> <<>>,
                                sections |-> <<>>], bookmarks, 1)
       IN /\ chapters' = st.chapters
          /\ chapter_titles' = st.chapter_titles
          /\ sections' = st.sections
    /\ pc' = "fallback"
    /\ UNCHANGED <<bookmarks, total_pages, min_level, max_level, min_pages,
                   section_ranges, idx, dirs, files, out, faults, arg, ret>>

\* lines 204-212: every chapter as a section of chapter '0'
ChaptersAsSections ==
    [i \in 1..Len(chapters) |->
        [title |-> chapters[i][2].title,
         chapter |-> <<"0">>,
         section |-> chapters[i][1],
         section_title |-> DictGet(chapter_titles, chapters[i][1], <<>>),
         page |-> chapters[i][2].page,
         level |-> 0]]

\* lines 197-218 with len(chapters) > 1 of line 203 written len(chapters) >= 1
FallbackOneChapter ==
    /\ pc = "fallback"
    /\ sections' = IF Len(chapters) > 0 /\ Len(sections) = 0 /\ Len(chapters) >= 1
                   THEN sections \o ChaptersAsSections
                   ELSE sections
    /\ pc' = "ranges"
    /\ UNCHANGED <<bookmarks, total_pages, min_level, max_level, min_pages, chapters,
                   chapter_titles, section_ranges, idx, dirs, files, out, faults,
                   arg, ret>>

\* lines 197-218
Fallback ==
    /\ pc = "fallback"
    /\ sections' = IF Len(chapters) > 0 /\ Len(sections) = 0 /\ Len(chapters) > 1
                   THEN sections \o ChaptersAsSections
                   ELSE sections
    /\ pc' = "ranges"
    /\ UNCHANGED <<bookmarks, total_pages, min_level, max_level, min_pages, chapters,
                   chapter_titles, section_ranges, idx, dirs, files, out, faults,
                   arg, ret>>

\* list.sort(key=page), stable: x goes after the elements of the sorted list l
\* whose page is not larger
RECURSIVE InsertByPage(_, _)
InsertByPage(l, x) ==
    IF l = <<>> THEN <<x>>
    ELSE IF x.page < Head(l).page THEN <<x>> \o l
    ELSE <<Head(l)>> \o InsertByPage(Tail(l), x)

RECURSIVE SortFrom(_, _, _)
SortFrom(done, l, i) ==
    IF i > Len(l) THEN done ELSE SortFrom(InsertByPage(done, l[i]), l, i + 1)

\* line 221 left out: the sections stay in the order they were appended
SortByPageSkipped(l) == l

\* line 221
SortByPage(l) == SortFrom(<<>>, l, 1)

\* lines 229-241: the end page before the minimum is looked at
EndByNext(secs, i) ==
    IF i < Len(secs)
    THEN IF secs[i + 1].page > secs[i].page THEN secs[i + 1].page ELSE secs[i].page
    ELSE total_pages - 1

\* lines 243-245 without the min(..., total_pages - 1) of line 245
EndPageUnclamped(secs, i) ==
    LET start_page == secs[i].page
        end_page   == EndByNext(secs, i)
    IN IF end_page - start_page + 1 < min_pages
       THEN start_page + min_pages - 1
       ELSE end_page

\* lines 243-245
EndPage(secs, i) ==
    LET start_page == secs[i].page
        end_page   == EndByNext(secs, i)
    IN IF end_page - start_page + 1 < min_pages
       THEN Min(start_page + min_pages - 1, total_pages - 1)
       ELSE end_page

\* lines 224-254
Ranges(secs) ==
    [i \in 1..Len(secs) |->
        [title |-> secs[i].title,
         chapter |-> secs[i].chapter,
         section |-> secs[i].section,
         section_title |-> secs[i].section_title,
         start |-> secs[i].page,
         end |-> EndPage(secs, i)]]

\* lines 220-254
BuildRanges ==
    /\ pc = "ranges"
    /\ sections' = SortByPage(sections)
    /\ section_ranges' = Ranges(SortByPage(sections))
    /\ idx' = 1
    /\ pc' = "emit"
    /\ UNCHANGED <<bookmarks, total_pages, min_level, max_level, min_pages, chapters,
                   chapter_titles, dirs, files, out, faults, arg, ret>>

\* lines 256-258
NoSections ==
    /\ pc = "emit"
    /\ section_ranges = <<>>
    /\ out' = Append(out, [kind |-> "no_sections", i |-> 0, pages |-> <<>>, failed |-> {}])
    /\ pc' = "done"
    /\ UNCHANGED <<bookmarks, total_pages, min_level, max_level, min_pages, chapters,
                   chapter_titles, sections, section_ranges, idx, dirs, files, faults,
                   arg, ret>>

\* lines 263-266: the chapter directory's name under root_dir
ChapterFolder(section) ==
    LET chapter_num   == section.chapter
        chapter_title == DictGet(chapter_titles, chapter_num,
                                 <<"C", "h", "a", "p", "t", "e", "r", "_">> \o chapter_num)
    IN <<"C", "h", "a", "p", "t", "e", "r", "_">> \o chapter_num \o <<"_">> \o
       create_clean_filename(chapter_title)

\* str.replace('.', '_')
ReplaceDots(text) == [i \in 1..Len(text) |-> IF text[i] = "." THEN "_" ELSE text[i]]

\* lines 289-292
OutputFilename(section) ==
    LET section_id  == IF ~Falsy(section.section)
                       THEN ReplaceDots(section.section)
                       ELSE <<"S", "e", "c", "t", "i", "o", "n", "_">> \o section.chapter
        clean_title == create_clean_filename(section.section_title)
    IN section_id \o <<"_">> \o clean_title \o <<".", "p", "d", "f">>

\* lines 266 and 293: os.path.join(chapter_dir, output_filename); neither part
\* holds a separator, so the pair is the path and its dir the directory made
\* at line 269
OutputPath(section) == [dir |-> ChapterFolder(section), file |-> OutputFilename(section)]

\* range(a, b): the last page is left out
PageRangeShort(a, b) == [k \in 1..(b - a) |-> a + k - 1]

\* range(a, b + 1)
PageRange(a, b) == [k \in 1..(b - a + 1) |-> a + k - 1]

\* lines 275-281: the pages the writer holds when the copies of the pages in
\* failed raise
CopiedPages(section, failed) ==
    SelectSeq(PageRange(section.start, section.end), LAMBDA p : p \notin failed)

\* the file system after a write of pages to path has completed
WriteFile(fs, path, pages) ==
    [q \in DOMAIN fs \cup {path} |-> IF q = path THEN pages ELSE fs[q]]

\* one entry of the emitter's trace: what it printed for section i, the pages
\* it handed to the file, the pages whose copy raised
Event(kind, i, pages, failed) == [kind |-> kind, i |-> i, pages |-> pages, failed |-> failed]

\* the emitter is at the head of its loop with section_ranges[idx] to do
AtSection == pc = "emit" /\ idx >= 1 /\ idx <= Len(section_ranges)

\* the page sets whose copies may raise in the first loop: any, within budget
\* many failures in all
FailChoices(section, budget) ==
    { f \in SUBSET { section.start + k - 1 : k \in 1..(section.end - section.start + 1) } :
        faults + Cardinality(f) <= budget }

\* lines 261-286: every copy raised (or the range is empty): a warning, continue
EmitSkipped(budget) ==
    /\ AtSection
    /\ LET section == section_ranges[idx]
       IN \E failed \in FailChoices(section, budget) :
            /\ CopiedPages(section, failed) = <<>>
            /\ dirs' = dirs \cup {ChapterFolder(section)}
            /\ out' = Append(out, Event("skipped", idx, <<>>, failed))
            /\ faults' = faults + Cardinality(failed)
    /\ idx' = idx + 1
    /\ UNCHANGED <<pc, bookmarks, total_pages, min_level, max_level, min_pages, chapters,
                   chapter_titles, sections, section_ranges, files, arg, ret>>

\* lines 261-301 and 326-327: the file is written and is 1000 bytes or more
EmitCreated(budget) ==
    /\ AtSection
    /\ LET section == section_ranges[idx]
       IN \E failed \in FailChoices(section, budget) :
            LET copied == CopiedPages(section, failed)
                path   == OutputPath(section)
            IN /\ copied # <<>>
               /\ dirs' = dirs \cup {path.dir}
               /\ files' = WriteFile(files, path, copied)
               /\ out' = Append(out, Event("created", idx, copied, failed))
               /\ faults' = faults + Cardinality(failed)
    /\ idx' = idx + 1
    /\ UNCHANGED <<pc, bookmarks, total_pages, min_level, max_level, min_pages, chapters,
                   chapter_titles, sections, section_ranges, arg, ret>>

\* lines 261-307: the file is written, is under 1000 bytes, and the section
\* already ends at the last page: the file stays
EmitSmallKept(budget) ==
    /\ AtSection
    /\ LET section == section_ranges[idx]
       IN /\ ~(section.end < total_pages - 1)
          /\ \E failed \in FailChoices(section, budget) :
               LET copied == CopiedPages(section, failed)
                   path   == OutputPath(section)
               IN /\ copied # <<>>
                  /\ dirs' = dirs \cup {path.dir}
                  /\ files' = WriteFile(files, path, copied)
                  /\ out' = Append(out, Event("small", idx, copied, failed))
                  /\ faults' = faults + Cardinality(failed)
    /\ idx' = idx + 1
    /\ UNCHANGED <<pc, bookmarks, total_pages, min_level, max_level, min_pages, chapters,
                   chapter_titles, sections, section_ranges, arg, ret>>

\* lines 261-325: the file is written, is under 1000 bytes, and is written
\* again with up to two more pages.  The second loop stops at the first copy
\* that raises (stop; none when stop is past extended_end).  The second write
\* succeeds, or open raises (the first file stays), or write raises (the file
\* is left cut short)
EmitSmallRetried(budget) ==
    /\ AtSection
    /\ LET section      == section_ranges[idx]
           extended_end == Min(section.end + 2, total_pages - 1)
       IN /\ section.end < total_pages - 1
          /\ \E failed \in FailChoices(section, budget),
                stop \in section.start..(extended_end + 1),
                second \in {"ok", "open_raises", "write_raises"} :
               LET first == CopiedPages(section, failed)
                   again == PageRange(section.start, stop - 1)
                   path  == OutputPath(section)
                   cost  == Cardinality(failed)
                            + (IF stop <= extended_end THEN 1 ELSE 0)
                            + (IF second = "ok" THEN 0 ELSE 1)
               IN /\ first # <<>>
                  /\ faults + cost <= budget
                  /\ dirs' = dirs \cup {path.dir}
                  /\ files' = WriteFile(files, path,
                                        CASE second = "ok" -> again
                                          [] second = "open_raises" -> first
                                          [] second = "write_raises" -> <<>>)
                  /\ out' = out \o << Event("small", idx, first, failed),
                                      Event(IF second = "ok" THEN "fixed" ELSE "fix_failed",
                                            idx,
                                            IF second = "ok" THEN again ELSE <<>>,
                                            IF stop <= extended_end THEN {stop} ELSE {}) >>
                  /\ faults' = faults + cost
    /\ idx' = idx + 1
    /\ UNCHANGED <<pc, bookmarks, total_pages, min_level, max_level, min_pages, chapters,
                   chapter_titles, sections, section_ranges, arg, ret>>

\* lines 261-298 with no try around the write: the error ends the run
EmitWriteErrorAborts(budget) ==
    /\ AtSection
    /\ LET section == section_ranges[idx]
       IN \E failed \in FailChoices(section, budget),
             first \in {"open_raises", "write_raises"} :
            /\ CopiedPages(section, failed) # <<>>
            /\ faults + Cardinality(failed) + 1 <= budget
            /\ dirs' = dirs \cup {ChapterFolder(section)}
            /\ files' = IF first = "open_raises" THEN files
                        ELSE WriteFile(files, OutputPath(section), <<>>)
            /\ out' = Append(out, Event("error", idx, <<>>, failed))
            /\ faults' = faults + Cardinality(failed) + 1
    /\ pc' = "done"
    /\ UNCHANGED <<idx, bookmarks, total_pages, min_level, max_level, min_pages, chapters,
                   chapter_titles, sections, section_ranges, arg, ret>>

\* lines 261-298 and 328-329: open raises (no file is made or changed) or
\* write raises (the file is left cut short); the error is printed
EmitWriteError(budget) ==
    /\ AtSection
    /\ LET section == section_ranges[idx]
       IN \E failed \in FailChoices(section, budget),
             first \in {"open_raises", "write_raises"} :
            /\ CopiedPages(section, failed) # <<>>
            /\ faults + Cardinality(failed) + 1 <= budget
            /\ dirs' = dirs \cup {ChapterFolder(section)}
            /\ files' = IF first = "open_raises" THEN files
                        ELSE WriteFile(files, OutputPath(section), <<>>)
            /\ out' = Append(out, Event("error", idx, <<>>, failed))
            /\ faults' = faults + Cardinality(failed) + 1
    /\ idx' = idx + 1
    /\ UNCHANGED <<pc, bookmarks, total_pages, min_level, max_level, min_pages, chapters,
                   chapter_titles, sections, section_ranges, arg, ret>>

\* lines 331-333: the loop is over
Finish ==
    /\ pc = "emit"
    /\ section_ranges # <<>>
    /\ idx > Len(section_ranges)
    /\ out' = Append(out, Event("split", Len(section_ranges), <<>>, {}))
    /\ pc' = "done"
    /\ UNCHANGED <<bookmarks, total_pages, min_level, max_level, min_pages, chapters,
                   chapter_titles, sections, section_ranges, idx, dirs, files, faults,
                   arg, ret>>

\* a run in which no page copy and no write fails and every file is 1000
\* bytes or more
Next ==
    \/ FirstPass
    \/ Fallback
    \/ BuildRanges
    \/ NoSections
    \/ EmitCreated(0)
    \/ Finish

Spec == Init /\ [][Next]_vars

\* a run in which page copies and writes may fail and files may be small
InitFaults == Start(MaxFaultBookmarks, MaxFaultPages, {<<1, 1>>})

NextFaults ==
    \/ FirstPass
    \/ Fallback
    \/ BuildRanges
    \/ NoSections
    \/ EmitSkipped(MaxFaults)
    \/ EmitCreated(MaxFaults)
    \/ EmitSmallKept(MaxFaults)
    \/ EmitSmallRetried(MaxFaults)
    \/ EmitWriteError(MaxFaults)
    \/ Finish

SpecFaults == InitFaults /\ [][NextFaults]_vars

(***************************************************************************)
(* What the claims speak of.                                               *)
(***************************************************************************)
\* section_ranges has been built (line 254 is passed)
Built == pc \in {"emit", "done"}

\* the classified level of the bookmark a title comes from
LevelOf(title) == TitleInfo(title).level

\* the chapter-level bookmarks, by position
ChapterBookmarks == { i \in 1..Len(bookmarks) : LevelOf(bookmarks[i].title) = 0 }

\* the chapter ids of the chapter-level bookmarks
ChapterIds == { TitleInfo(bookmarks[i].title).chapter_num : i \in ChapterBookmarks }

\* no bookmark is classified at a level inside [min_level, max_level]
NoneInWindow ==
    \A i \in 1..Len(bookmarks) :
        ~(min_level <= LevelOf(bookmarks[i].title) /\ LevelOf(bookmarks[i].title) <= max_level)

\* no bookmark is a section (level 1 to 3) inside [min_level, max_level]
NoSectionInWindow ==
    \A i \in 1..Len(bookmarks) :
        ~(/\ LevelOf(bookmarks[i].title) >= 1
          /\ min_level <= LevelOf(bookmarks[i].title)
          /\ LevelOf(bookmarks[i].title) <= max_level)

\* the greatest element of a non-empty set of integers
Max(S) == CHOOSE x \in S : \A y \in S : y <= x

\* the page of the last chapter-level bookmark with chapter id c
LastPageOf(c) ==
    bookmarks[Max({ i \in ChapterBookmarks :
                      TitleInfo(bookmarks[i].title).chapter_num = c })].page

\* end - start + 1 of range i
RangeLen(i) == section_ranges[i].end - section_ranges[i].start + 1

RECURSIVE SumOver(_, _)
\* the sum of f[x] over x in S
SumOver(f, S) ==
    IF S = {} THEN 0
    ELSE LET x == CHOOSE y \in S : TRUE IN f[x] + SumOver(f, S \ {x})

\* the pages held by the files that exist
PagesInFiles == SumOver([q \in DOMAIN files |-> Len(files[q])], DOMAIN files)

\* the entries of the emitter's trace
Events == { out[k] : k \in 1..Len(out) }

\* section i was skipped: for want of pages (line 286), or because its write
\* failed (line 329)
Skipped(i) == \E e \in Events : e.kind \in {"skipped", "error"} /\ e.i = i

(***************************************************************************)
(* C1                                                                      *)
(***************************************************************************)
\* C1, as stated: every entry of section_ranges, the fallback's included,
\* comes from a bookmark whose classified level lies in [min_level, max_level].
C1_EveryRangeInWindow ==
    Built =>
        \A i \in 1..Len(section_ranges) :
            /\ min_level <= LevelOf(section_ranges[i].title)
            /\ LevelOf(section_ranges[i].title) <= max_level

\* C1, amended: every entry of section_ranges comes from a bookmark (its
\* title and page) that is either a section whose level lies in the window,
\* or, in the chapters-as-sections fallback, a chapter-level (level 0)
\* bookmark put under chapter '0', which happens only when no bookmark is a
\* section inside the window.
C1_InWindowOrFallback ==
    Built =>
        \A i \in 1..Len(section_ranges) :
            LET r == section_ranges[i]
                l == LevelOf(r.title)
            IN /\ \E k \in 1..Len(bookmarks) :
                     bookmarks[k].title = r.title /\ bookmarks[k].page = r.start
               /\ \/ l >= 1 /\ min_level <= l /\ l <= max_level
                  \/ l = 0 /\ r.chapter = <<"0">> /\ NoSectionInWindow

\* a run whose window starts at level 2, with a level-1 bookmark left out and
\* a level-2 bookmark emitted
C1_Witness ==
    /\ pc = "done"
    /\ min_level = 2
    /\ \E k \in 1..Len(bookmarks) : LevelOf(bookmarks[k].title) = 1
    /\ \E i \in 1..Len(section_ranges) : LevelOf(section_ranges[i].title) = 2

(***************************************************************************)
(* C2                                                                      *)
(***************************************************************************)
\* C2: each range built by the loop of lines 225-254 has
\* start <= end <= total_pages - 1, after the next-bookmark rule and after
\* the minimum-pages extension.
C2_RangesWithinDocument ==
    Built =>
        \A i \in 1..Len(section_ranges) :
            /\ section_ranges[i].start = sections[i].page
            /\ section_ranges[i].start <= EndByNext(sections, i)
            /\ EndByNext(sections, i) <= total_pages - 1
            /\ section_ranges[i].start <= section_ranges[i].end
            /\ section_ranges[i].end <= total_pages - 1

\* a range that the minimum extended past the next bookmark's rule, and a
\* range that the minimum would have taken past the end of the document
C2_Witness ==
    /\ Built
    /\ \E i \in 1..Len(section_ranges) :
         /\ EndByNext(sections, i) - section_ranges[i].start + 1 < min_pages
         /\ section_ranges[i].end > EndByNext(sections, i)
    /\ \E i \in 1..Len(section_ranges) :
         /\ EndByNext(sections, i) - section_ranges[i].start + 1 < min_pages
         /\ section_ranges[i].start + min_pages - 1 > total_pages - 1
         /\ section_ranges[i].end = total_pages - 1

(***************************************************************************)
(* C3                                                                      *)
(***************************************************************************)
\* C3: the ranges, in emission order, have non-decreasing starts, leave no
\* gap (each next start is at most the previous end + 1, every page from the
\* first start to total_pages - 1 lies in a range) and the last one ends at
\* total_pages - 1.
C3_OrderedGapFree ==
    (Built /\ section_ranges # <<>>) =>
        LET n == Len(section_ranges)
        IN /\ \A i \in 1..(n - 1) :
                /\ section_ranges[i].start <= section_ranges[i + 1].start
                /\ section_ranges[i + 1].start <= section_ranges[i].end + 1
           /\ section_ranges[n].end = total_pages - 1
           /\ \A p \in section_ranges[1].start..(total_pages - 1) :
                \E i \in 1..n : section_ranges[i].start <= p /\ p <= section_ranges[i].end

\* two ranges from the fallback, whose chapters are not in page order in the
\* dict (the first was seen again on a later page)
C3_Witness ==
    /\ Built
    /\ Len(section_ranges) = 2
    /\ Len(chapters) = 2
    /\ chapters[1][2].page > chapters[2][2].page
    /\ section_ranges[1].start < section_ranges[2].start

(***************************************************************************)
(* C4                                                                      *)
(***************************************************************************)
\* C4, as stated: with no bookmark inside the window and two or more
\* chapter-level bookmarks, the fallback emits one section per chapter-level
\* bookmark, under chapter '0', with the chapter's id and the bookmark's page.
C4_OnePerChapterBookmark ==
    (Built /\ NoneInWindow /\ Cardinality(ChapterBookmarks) >= 2) =>
        /\ Len(section_ranges) = Cardinality(ChapterBookmarks)
        /\ \A i \in ChapterBookmarks :
             \E k \in 1..Len(section_ranges) :
                /\ section_ranges[k].chapter = <<"0">>
                /\ section_ranges[k].section = TitleInfo(bookmarks[i].title).chapter_num
                /\ section_ranges[k].start = bookmarks[i].page

\* C4, amended: with no bookmark inside the window and two or more distinct
\* chapter ids among the chapter-level bookmarks, the fallback emits one
\* section per distinct chapter id, under chapter '0', with that id as its
\* section id and the page of the last chapter-level bookmark of that id.
C4_OnePerChapterId ==
    (Built /\ NoneInWindow /\ Cardinality(ChapterIds) >= 2) =>
        /\ Len(section_ranges) = Cardinality(ChapterIds)
        /\ \A k \in 1..Len(section_ranges) : section_ranges[k].chapter = <<"0">>
        /\ \A c \in ChapterIds :
             \E k \in 1..Len(section_ranges) :
                /\ section_ranges[k].section = c
                /\ section_ranges[k].start = LastPageOf(c)

\* three chapter-level bookmarks, two of one id on different pages, and two
\* sections emitted
C4_Witness ==
    /\ pc = "done"
    /\ NoneInWindow
    /\ Cardinality(ChapterBookmarks) = 3
    /\ Cardinality(ChapterIds) = 2
    /\ Len(section_ranges) = 2
    /\ \E i, j \in ChapterBookmarks :
         /\ i < j
         /\ TitleInfo(bookmarks[i].title).chapter_num = TitleInfo(bookmarks[j].title).chapter_num
         /\ bookmarks[i].page < bookmarks[j].page

(***************************************************************************)
(* C5                                                                      *)
(***************************************************************************)
\* no bookmark matches a pattern, or none is a section inside the window and
\* at most one chapter exists
NoSurvivor ==
    \/ \A i \in 1..Len(bookmarks) : LevelOf(bookmarks[i].title) = -1
    \/ NoSectionInWindow /\ Cardinality(ChapterIds) <= 1

\* C5: when no section survives classification and fallback, the run prints
\* that there are no sections and ends: the emitter loop is not entered, no
\* directory and no file is made.
C5_NoSectionsNoOutput ==
    NoSurvivor =>
        /\ dirs = {}
        /\ DOMAIN files = {}
        /\ Built => section_ranges = <<>>
        /\ pc = "done" => out = <<Event("no_sections", 0, <<>>, {})>>
        /\ pc # "done" => out = <<>>

\* a finished run over two bookmarks, one chapter and nothing inside the window
C5_Witness ==
    /\ pc = "done"
    /\ NoSurvivor
    /\ Cardinality(ChapterIds) = 1
    /\ Len(bookmarks) >= 2
    /\ out = <<Event("no_sections", 0, <<>>, {})>>

(***************************************************************************)
(* C6                                                                      *)
(***************************************************************************)
\* C6: create_clean_filename is idempotent: sanitizing a sanitized text gives
\* the same text, also when the cleaned form is empty and when the text is
\* longer than the truncation.
C6_SanitizeIdempotent == pc = "returned" => ret[2] = ret[1]

(***************************************************************************)
(* C7                                                                      *)
(***************************************************************************)
\* C7, as stated: at the end of the run the pages in the files that exist
\* number the sum of end - start + 1 over the ranges that were not skipped,
\* also when page copies fail and when a small file is written again.
C7_PagesRoundTrip ==
    (pc = "done" /\ section_ranges # <<>>) =>
        PagesInFiles =
            SumOver([i \in 1..Len(section_ranges) |-> RangeLen(i)],
                    { i \in 1..Len(section_ranges) : ~Skipped(i) })

\* C7, amended: at the end of the run, every section whose file was written
\* without a write error was first written with exactly its end - start + 1
\* pages less the pages whose copy failed, in page order; so the pages
\* written for these sections number the sum of their range lengths less the
\* failed copies.
C7_PagesPerWrite ==
    pc = "done" =>
        LET written == { e \in Events : e.kind \in {"created", "small"} }
            lens    == [e \in written |-> Len(e.pages)]
            owed    == [e \in written |-> RangeLen(e.i) - Cardinality(e.failed)]
        IN /\ \A e \in written :
                /\ Len(e.pages) = RangeLen(e.i) - Cardinality(e.failed)
                /\ \A k \in 1..Len(e.pages) :
                     /\ e.pages[k] >= section_ranges[e.i].start
                     /\ e.pages[k] <= section_ranges[e.i].end
                     /\ e.pages[k] \notin e.failed
                     /\ k > 1 => e.pages[k - 1] < e.pages[k]
           /\ SumOver(lens, written) = SumOver(owed, written)

\* a finished run of two sections or more in which a file was written after
\* one of its page copies failed
C7_Witness ==
    /\ pc = "done"
    /\ Len(section_ranges) >= 2
    /\ \E e \in Events : e.kind = "created" /\ e.failed # {} /\ Len(e.pages) >= 1

(***************************************************************************)
(* C8                                                                      *)
(***************************************************************************)
\* C8: whatever fails while a section is emitted (a page copy, every page
\* copy, the write, the retry of a small file), every later section is still
\* attempted: the run ends only after the last section.
C8_AllSectionsAttempted ==
    (pc = "done" /\ section_ranges # <<>>) =>
        /\ idx = Len(section_ranges) + 1
        /\ \A i \in 1..Len(section_ranges) :
             \E e \in Events : e.i = i /\ e.kind \in {"skipped", "created", "small", "error"}
        /\ out[Len(out)] = Event("split", Len(section_ranges), <<>>, {})

\* a finished run in which a section failed and a later one was written
C8_Witness ==
    /\ pc = "done"
    /\ \E e, g \in Events :
         /\ e.kind \in {"error", "skipped", "fix_failed"}
         /\ g.kind = "created"
         /\ g.i > e.i

(***************************************************************************)
(* C9                                                                      *)
(***************************************************************************)
\* p is k integers joined by single dots
IsDottedNumber(p, k) ==
    /\ p # <<>>
    /\ \A i \in 1..Len(p) : IsDigit(p[i]) \/ p[i] = "."
    /\ IsDigit(p[1])
    /\ IsDigit(p[Len(p)])
    /\ \A i \in 1..(Len(p) - 1) : ~(p[i] = "." /\ p[i + 1] = ".")
    /\ Cardinality({ i \in 1..Len(p) : p[i] = "." }) = k - 1

\* the lengths e such that title is a dotted number of k integers, its first
\* e characters, followed by text: the text does not go on with the number
DottedPrefixes(title, k) ==
    { e \in 1..Len(title) :
        /\ IsDottedNumber(SubSeq(title, 1, e), k)
        /\ e < Len(title) => ~IsDigit(title[e + 1])
        /\ e + 1 < Len(title) => ~(title[e + 1] = "." /\ IsDigit(title[e + 2])) }

\* the first integer of a dotted number
FirstInteger(p) ==
    SubSeq(p, 1, (CHOOSE i \in 1..(Len(p) + 1) :
                     /\ i = Len(p) + 1 \/ p[i] = "."
                     /\ \A j \in 1..(i - 1) : p[j] # ".") - 1)

\* C9: a title that starts with a dotted number of 2, 3 or 4 integers and
\* goes on with text, with or without whitespace between, is classified with
\* the first integer as chapter id, the dotted number as section id and the
\* number of integers after the first as level.
C9_DottedPrefixClassified ==
    pc = "returned" =>
        \A k \in 2..4 :
            \A e \in DottedPrefixes(arg, k) :
                /\ ret.chapter_num = FirstInteger(SubSeq(arg, 1, e))
                /\ ret.section_id = SubSeq(arg, 1, e)
                /\ ret.level = k - 1

\* a classified title of four integers followed at once by a letter
C9_Witness ==
    /\ pc = "returned"
    /\ \E e \in DottedPrefixes(arg, 4) : e < Len(arg) /\ arg[e + 1] = "a"
    /\ ret.level = 3

(***************************************************************************)
(* C10                                                                     *)
(***************************************************************************)
\* C10: no two entries of section_ranges are written to the same output path,
\* so that at the end there are as many files as sections written.
C10_DistinctOutputPaths ==
    (pc = "done" /\ section_ranges # <<>>) =>
        /\ \A i, j \in 1..Len(section_ranges) :
             i # j => OutputPath(section_ranges[i]) # OutputPath(section_ranges[j])
        /\ Cardinality(DOMAIN files) =
             Cardinality({ e \in Events : e.kind \in {"created", "small"} })

====
